---- MODULE Spec2Model ----
(***************************************************************************)
(* Steganography codec of src/services/steganography.ts: the seeded pixel  *)
(* permutation, the payload framer, the LSB embedder (encode) and the      *)
(* extractor (decode).                                                     *)
(*                                                                         *)
(* Representation.  A JavaScript string is a sequence of character codes,  *)
(* a bit string ('0'/'1' characters) a sequence of 0/1.  A 32-bit integer  *)
(* of the generator is the signed value JavaScript's bitwise operators     *)
(* yield (-2^31 .. 2^31-1).  A JavaScript number that may exceed 2^31-1    *)
(* (an unsigned 32-bit value) is a pair <<hi, lo>> of 16-bit halves.       *)
(***************************************************************************)
EXTENDS Integers, Sequences, FiniteSets, TLC

(***************************************************************************)
(* 32-bit integer arithmetic of JavaScript                                 *)
(***************************************************************************)
Pow2(n) == 2 ^ n

\* Byte k (0 = least significant) of the two's complement form of int32 x.
ByteOf(x, k) == (x \div Pow2(8 * k)) % 256

\* The int32 whose two's complement bytes are b3 b2 b1 b0 (ToInt32).
Int32OfBytes(b3, b2, b1, b0) ==
    (IF b3 >= 128 THEN b3 - 256 ELSE b3) * 16777216 + b2 * 65536 + b1 * 256 + b0

\* Hexadecimal digit k (0 = least significant) of the two's complement form
\* of int32 x.
NibbleOf(x, k) == (x \div Pow2(4 * k)) % 16

\* The int32 whose two's complement hexadecimal digits are n7 ... n0.
Int32OfNibbles(n7, n6, n5, n4, n3, n2, n1, n0) ==
    (IF n7 >= 8 THEN n7 - 16 ELSE n7) * 268435456 + n6 * 16777216 + n5 * 1048576
        + n4 * 65536 + n3 * 4096 + n2 * 256 + n1 * 16 + n0

\* p ^ q, p | q and p & q on hexadecimal digits: row p + 1, column q + 1.
XorTable ==
    <<
       <<  0,  1,  2,  3,  4,  5,  6,  7,  8,  9, 10, 11, 12, 13, 14, 15 >>,
       <<  1,  0,  3,  2,  5,  4,  7,  6,  9,  8, 11, 10, 13, 12, 15, 14 >>,
       <<  2,  3,  0,  1,  6,  7,  4,  5, 10, 11,  8,  9, 14, 15, 12, 13 >>,
       <<  3,  2,  1,  0,  7,  6,  5,  4, 11, 10,  9,  8, 15, 14, 13, 12 >>,
       <<  4,  5,  6,  7,  0,  1,  2,  3, 12, 13, 14, 15,  8,  9, 10, 11 >>,
       <<  5,  4,  7,  6,  1,  0,  3,  2, 13, 12, 15, 14,  9,  8, 11, 10 >>,
       <<  6,  7,  4,  5,  2,  3,  0,  1, 14, 15, 12, 13, 10, 11,  8,  9 >>,
       <<  7,  6,  5,  4,  3,  2,  1,  0, 15, 14, 13, 12, 11, 10,  9,  8 >>,
       <<  8,  9, 10, 11, 12, 13, 14, 15,  0,  1,  2,  3,  4,  5,  6,  7 >>,
       <<  9,  8, 11, 10, 13, 12, 15, 14,  1,  0,  3,  2,  5,  4,  7,  6 >>,
       << 10, 11,  8,  9, 14, 15, 12, 13,  2,  3,  0,  1,  6,  7,  4,  5 >>,
       << 11, 10,  9,  8, 15, 14, 13, 12,  3,  2,  1,  0,  7,  6,  5,  4 >>,
       << 12, 13, 14, 15,  8,  9, 10, 11,  4,  5,  6,  7,  0,  1,  2,  3 >>,
       << 13, 12, 15, 14,  9,  8, 11, 10,  5,  4,  7,  6,  1,  0,  3,  2 >>,
       << 14, 15, 12, 13, 10, 11,  8,  9,  6,  7,  4,  5,  2,  3,  0,  1 >>,
       << 15, 14, 13, 12, 11, 10,  9,  8,  7,  6,  5,  4,  3,  2,  1,  0 >> >>

OrTable ==
    <<
       <<  0,  1,  2,  3,  4,  5,  6,  7,  8,  9, 10, 11, 12, 13, 14, 15 >>,
       <<  1,  1,  3,  3,  5,  5,  7,  7,  9,  9, 11, 11, 13, 13, 15, 15 >>,
       <<  2,  3,  2,  3,  6,  7,  6,  7, 10, 11, 10, 11, 14, 15, 14, 15 >>,
       <<  3,  3,  3,  3,  7,  7,  7,  7, 11, 11, 11, 11, 15, 15, 15, 15 >>,
       <<  4,  5,  6,  7,  4,  5,  6,  7, 12, 13, 14, 15, 12, 13, 14, 15 >>,
       <<  5,  5,  7,  7,  5,  5,  7,  7, 13, 13, 15, 15, 13, 13, 15, 15 >>,
       <<  6,  7,  6,  7,  6,  7,  6,  7, 14, 15, 14, 15, 14, 15, 14, 15 >>,
       <<  7,  7,  7,  7,  7,  7,  7,  7, 15, 15, 15, 15, 15, 15, 15, 15 >>,
       <<  8,  9, 10, 11, 12, 13, 14, 15,  8,  9, 10, 11, 12, 13, 14, 15 >>,
       <<  9,  9, 11, 11, 13, 13, 15, 15,  9,  9, 11, 11, 13, 13, 15, 15 >>,
       << 10, 11, 10, 11, 14, 15, 14, 15, 10, 11, 10, 11, 14, 15, 14, 15 >>,
       << 11, 11, 11, 11, 15, 15, 15, 15, 11, 11, 11, 11, 15, 15, 15, 15 >>,
       << 12, 13, 14, 15, 12, 13, 14, 15, 12, 13, 14, 15, 12, 13, 14, 15 >>,
       << 13, 13, 15, 15, 13, 13, 15, 15, 13, 13, 15, 15, 13, 13, 15, 15 >>,
       << 14, 15, 14, 15, 14, 15, 14, 15, 14, 15, 14, 15, 14, 15, 14, 15 >>,
       << 15, 15, 15, 15, 15, 15, 15, 15, 15, 15, 15, 15, 15, 15, 15, 15 >> >>

AndTable ==
    <<
       <<  0,  0,  0,  0,  0,  0,  0,  0,  0,  0,  0,  0,  0,  0,  0,  0 >>,
       <<  0,  1,  0,  1,  0,  1,  0,  1,  0,  1,  0,  1,  0,  1,  0,  1 >>,
       <<  0,  0,  2,  2,  0,  0,  2,  2,  0,  0,  2,  2,  0,  0,  2,  2 >>,
       <<  0,  1,  2,  3,  0,  1,  2,  3,  0,  1,  2,  3,  0,  1,  2,  3 >>,
       <<  0,  0,  0,  0,  4,  4,  4,  4,  0,  0,  0,  0,  4,  4,  4,  4 >>,
       <<  0,  1,  0,  1,  4,  5,  4,  5,  0,  1,  0,  1,  4,  5,  4,  5 >>,
       <<  0,  0,  2,  2,  4,  4,  6,  6,  0,  0,  2,  2,  4,  4,  6,  6 >>,
       <<  0,  1,  2,  3,  4,  5,  6,  7,  0,  1,  2,  3,  4,  5,  6,  7 >>,
       <<  0,  0,  0,  0,  0,  0,  0,  0,  8,  8,  8,  8,  8,  8,  8,  8 >>,
       <<  0,  1,  0,  1,  0,  1,  0,  1,  8,  9,  8,  9,  8,  9,  8,  9 >>,
       <<  0,  0,  2,  2,  0,  0,  2,  2,  8,  8, 10, 10,  8,  8, 10, 10 >>,
       <<  0,  1,  2,  3,  0,  1,  2,  3,  8,  9, 10, 11,  8,  9, 10, 11 >>,
       <<  0,  0,  0,  0,  4,  4,  4,  4,  8,  8,  8,  8, 12, 12, 12, 12 >>,
       <<  0,  1,  0,  1,  4,  5,  4,  5,  8,  9,  8,  9, 12, 13, 12, 13 >>,
       <<  0,  0,  2,  2,  4,  4,  6,  6,  8,  8, 10, 10, 12, 12, 14, 14 >>,
       <<  0,  1,  2,  3,  4,  5,  6,  7,  8,  9, 10, 11, 12, 13, 14, 15 >> >>

\* A bitwise operation on int32 operands, digit by digit.
Bitwise(t, a, b) ==
    Int32OfNibbles(t[NibbleOf(a, 7) + 1][NibbleOf(b, 7) + 1],
                   t[NibbleOf(a, 6) + 1][NibbleOf(b, 6) + 1],
                   t[NibbleOf(a, 5) + 1][NibbleOf(b, 5) + 1],
                   t[NibbleOf(a, 4) + 1][NibbleOf(b, 4) + 1],
                   t[NibbleOf(a, 3) + 1][NibbleOf(b, 3) + 1],
                   t[NibbleOf(a, 2) + 1][NibbleOf(b, 2) + 1],
                   t[NibbleOf(a, 1) + 1][NibbleOf(b, 1) + 1],
                   t[NibbleOf(a, 0) + 1][NibbleOf(b, 0) + 1])

\* a ^ b, a | b, a & b on int32 operands.
Xor(a, b) == Bitwise(XorTable, a, b)
Or(a, b)  == Bitwise(OrTable, a, b)
And(a, b) == Bitwise(AndTable, a, b)

\* x << n on an int32 operand, 1 <= n <= 31: the low 32-n bits move up, the
\* result is read as int32.
Shl(x, n) ==
    LET low == x % Pow2(32 - n)
    IN  (IF low >= Pow2(31 - n) THEN low - Pow2(32 - n) ELSE low) * Pow2(n)

\* A faulty shift: x >> n, the sign bit shifted in.
Sshr(x, n) == x \div Pow2(n)

\* x >>> n on an int32 operand, 1 <= n <= 31: the unsigned value shifted right.
Ushr(x, n) ==
    IF x < 0 THEN (x \div Pow2(n)) + Pow2(32 - n) ELSE x \div Pow2(n)

\* Math.imul(a, b): the low 32 bits of the product, read as int32.  Computed
\* bytewise so that no intermediate value leaves the 32-bit range.
Imul(a, b) ==
    LET a0 == ByteOf(a, 0)  a1 == ByteOf(a, 1)  a2 == ByteOf(a, 2)  a3 == ByteOf(a, 3)
        b0 == ByteOf(b, 0)  b1 == ByteOf(b, 1)  b2 == ByteOf(b, 2)  b3 == ByteOf(b, 3)
        c0 == a0 * b0
        c1 == a0 * b1 + a1 * b0 + (c0 \div 256)
        c2 == a0 * b2 + a1 * b1 + a2 * b0 + (c1 \div 256)
        c3 == a0 * b3 + a1 * b2 + a2 * b1 + a3 * b0 + (c2 \div 256)
    IN  Int32OfBytes((c3 % 256), (c2 % 256), (c1 % 256), (c0 % 256))

\* x >>> 0 as the pair <<hi, lo>> of 16-bit halves of the unsigned value.
ToUint32(x) == << (x \div 65536) % 65536, x % 65536 >>

(***************************************************************************)
(* createSeededRandom                                                      *)
(***************************************************************************)
\* 1779033703
SeedInit == 1779033703
\* 3432918353 as Math.imul reads it (ToInt32).
SeedMul == -862048943
\* 2246822507 as Math.imul reads it (ToInt32).
StepMul1 == -2048144789
\* 3266489909 as Math.imul reads it (ToInt32).
StepMul2 == -1028477387

\* One iteration of the seeding loop, for the character code c.
SeedStep(h, c) ==
    LET h1 == Imul(Xor(h, c), SeedMul)
    IN  Or(Shl(h1, 13), Ushr(h1, 19))

\* The seeding loop over seed[lo..hi], in order.  (The range is halved, and
\* the state between the halves bound through a singleton set, only to keep
\* the evaluation shallow: every iteration runs once, in the loop's order.)
RECURSIVE SeedLoop(_, _, _, _)
SeedLoop(h, seed, lo, hi) ==
    IF lo > hi THEN h
    ELSE IF lo = hi THEN SeedStep(h, seed[lo])
    ELSE LET mid == (lo + hi) \div 2
         IN  CHOOSE r \in { SeedLoop(hm, seed, mid + 1, hi) :
                            hm \in { SeedLoop(h, seed, lo, mid) } } : TRUE

\* The closure's initial state h for a seed string.
createSeededRandom(seed) == SeedLoop(Xor(SeedInit, Len(seed)), seed, 1, Len(seed))

\* The closure's state h after one call.
RngNextState(h) ==
    LET h1 == Imul(Xor(h, Ushr(h, 16)), StepMul1)
        h2 == Imul(Xor(h1, Ushr(h1, 13)), StepMul2)
    IN  Xor(h2, Ushr(h2, 16))

\* The value the call returns, as the numerator u of u / 4294967296.
RngOutput(hNext) == ToUint32(hNext)

(***************************************************************************)
(* shuffleArray                                                            *)
(***************************************************************************)
\* Math.floor(r * (i + 1)) for r = u / 2^32, u = <<hi, lo>>: the product is
\* exact in double precision for the lengths at hand.
FloorScale(u, n) == (u[1] * n + ((u[2] * n) \div 65536)) \div 65536

\* A faulty swap: array[i] = array[j] alone, the old array[i] lost.
SwapOverwrite(array, i, j) == [array EXCEPT ![i] = array[j]]

\* [array[i], array[j]] = [array[j], array[i]] on a 0-based array held as a
\* function on 0..n-1.
Swap(array, i, j) == [array EXCEPT ![i] = array[j], ![j] = array[i]]

\* One iteration of the loop at index i: st = <<array, h>> before, after.
ShuffleStep(st, i) ==
    LET hn == RngNextState(st[2])
    IN  << Swap(st[1], i, FloorScale(RngOutput(hn), i + 1)), hn >>

\* The iterations for i = hi down to lo, in that order (halved like SeedLoop).
RECURSIVE ShuffleLoop(_, _, _)
ShuffleLoop(st, hi, lo) ==
    IF hi < lo THEN st
    ELSE IF hi = lo THEN ShuffleStep(st, hi)
    ELSE LET mid == (lo + hi) \div 2
         IN  CHOOSE r \in { ShuffleLoop(sm, mid, lo) :
                            sm \in { ShuffleLoop(st, hi, mid + 1) } } : TRUE

\* The array after shuffleArray(array, rng), rng being the closure in state h.
shuffleArray(array, n, h) == ShuffleLoop(<<array, h>>, n - 1, 1)[1]

(***************************************************************************)
(* getShuffledPixelIndices                                                 *)
(***************************************************************************)
\* Passwords of the model: "a" and "b", as character codes.
PasswordA == << 97 >>
PasswordB == << 98 >>
Passwords == { PasswordA, PasswordB }

\* CryptoJS.SHA256("a").toString(): the 64 hexadecimal digits of the digest,
\* as character codes.
HashOfA ==
    <<
       99, 97, 57, 55, 56, 49, 49, 50, 99, 97, 49, 98, 98, 100, 99, 97,
       102, 97, 99, 50, 51, 49, 98, 51, 57, 97, 50, 51, 100, 99, 52, 100,
       97, 55, 56, 54, 101, 102, 102, 56, 49, 52, 55, 99, 52, 101, 55, 50,
       98, 57, 56, 48, 55, 55, 56, 53, 97, 102, 101, 101, 52, 56, 98, 98 >>

\* CryptoJS.SHA256("b").toString().
HashOfB ==
    <<
       51, 101, 50, 51, 101, 56, 49, 54, 48, 48, 51, 57, 53, 57, 52, 97,
       51, 51, 56, 57, 52, 102, 54, 53, 54, 52, 101, 49, 98, 49, 51, 52,
       56, 98, 98, 100, 55, 97, 48, 48, 56, 56, 100, 52, 50, 99, 52, 97,
       99, 98, 55, 51, 101, 101, 97, 101, 100, 53, 57, 99, 48, 48, 57, 100 >>

\* CryptoJS.SHA256(password).toString() on the passwords of the model.
SHA256(password) == IF password = PasswordA THEN HashOfA ELSE HashOfB

\* Array.from({ length: pixelCount }, (_, i) => i)
IdentityIndices(pixelCount) == [k \in 0 .. pixelCount - 1 |-> k]

\* The shuffled pixel indices for (width, height, password): a 0-based array
\* held as a function on 0..width*height-1.
getShuffledPixelIndices(width, height, password) ==
    LET pixelCount   == width * height
        passwordHash == SHA256(password)
    IN  shuffleArray(IdentityIndices(pixelCount), pixelCount,
                     createSeededRandom(passwordHash))

(***************************************************************************)
(* Data conversion helpers                                                 *)
(***************************************************************************)
\* num.toString(2) for an integer num >= 0: the binary digits, no leading zero.
RECURSIVE ToBinary(_)
ToBinary(num) ==
    IF num < 2 THEN << num >> ELSE Append(ToBinary(num \div 2), num % 2)

\* s.padStart(width, '0'): zeros are put in front of a shorter s; a longer s
\* is returned as it is.
PadStart(s, width) ==
    IF Len(s) >= width THEN s ELSE [k \in 1 .. width - Len(s) |-> 0] \o s

\* The concatenation of f(str[1]), f(str[2]), ... for f = 8-digit binary.
RECURSIVE stringToBinary(_)
stringToBinary(str) ==
    IF str = << >> THEN << >>
    ELSE PadStart(ToBinary(Head(str)), 8) \o stringToBinary(Tail(str))

\* parseInt(binary, 2) for a digit string of at most 16 digits.
RECURSIVE ParseBits(_)
ParseBits(binary) ==
    IF binary = << >> THEN 0
    ELSE 2 * ParseBits(SubSeq(binary, 1, Len(binary) - 1)) + binary[Len(binary)]

\* binary.match(/.{1,8}/g) || []: the chunks of 8 digits from the left, the
\* last one holding what is left (1 to 8 digits).
RECURSIVE Chunks(_)
Chunks(binary) ==
    IF binary = << >> THEN << >>
    ELSE IF Len(binary) <= 8 THEN << binary >>
    ELSE << SubSeq(binary, 1, 8) >> \o Chunks(SubSeq(binary, 9, Len(binary)))

\* One character per chunk.
binaryToString(binary) ==
    LET chars == Chunks(binary)
    IN  [k \in 1 .. Len(chars) |-> ParseBits(chars[k])]

\* A faulty header: padded to 16 digits.
numberTo16BitBinary(num) == PadStart(ToBinary(num), 16)

\* num.toString(2).padStart(32, '0')
numberTo32BitBinary(num) == PadStart(ToBinary(num), 32)

\* parseInt(binary, 2) of the 32-digit header: a number up to 2^32-1, held as
\* the pair <<hi, lo>> of the values of its first and last 16 digits.
binaryToNumber(binary) ==
    << ParseBits(SubSeq(binary, 1, Len(binary) - 16)),
       ParseBits(SubSeq(binary, Len(binary) - 15, Len(binary))) >>

\* a < n for an integer a >= 0 and a number n = <<hi, lo>>.
NumLess(a, n) ==
    (a \div 65536) < n[1] \/ ((a \div 65536) = n[1] /\ (a % 65536) < n[2])

\* n > a for a number n = <<hi, lo>> and an integer a >= 0.
NumGreater(n, a) == NumLess(a, n)

\* n < 0 for a number n = <<hi, lo>>.
NumNegative(n) == n[1] < 0

(***************************************************************************)
(* The cipher (CryptoJS.AES), a black box with                             *)
(* decrypt(encrypt(p, pw), pw) = p.  A ciphertext is a salt character      *)
(* followed by one 8-bit character per plaintext character.                *)
(***************************************************************************)
\* The key a password derives.
KeyOf(password) == (password[1] * 37) % 256

\* CryptoJS.AES.encrypt(data, password).toString() with the salt drawn.
Encrypt(data, password, salt) ==
    << salt >> \o [k \in 1 .. Len(data) |-> (data[k] + KeyOf(password) + salt) % 256]

\* The characters decryption yields before they are read as UTF-8.
DecryptChars(ciphertext, password) ==
    IF ciphertext = << >> THEN << >>
    ELSE [k \in 1 .. Len(ciphertext) - 1 |->
            (ciphertext[k + 1] + 512 - KeyOf(password) - (ciphertext[1] % 256)) % 256]

\* bytes.toString(CryptoJS.enc.Utf8): throws on bytes that are no UTF-8 text.
DecryptThrows(ciphertext, password) ==
    \E k \in 1 .. Len(ciphertext) - 1 : DecryptChars(ciphertext, password)[k] >= 128

(***************************************************************************)
(* Bounds of the model                                                     *)
(***************************************************************************)
MaxW       == 5
MaxH       == 4
MaxDataLen == 3
NumCovers  == 2
NumSalts   == 2
\* Permutation derivations: their image sizes, how many calls are made in all.
MaxShuffleW == 3
MaxShuffleH == 2
MaxCalls    == 3
\* shuffleArray on its own: the longest array.
MaxFreeLen  == 4

(***************************************************************************)
(* Inputs                                                                  *)
(***************************************************************************)
\* The plaintexts: strings over "a", "b" of length 0..MaxDataLen.
DataChars == { 97, 98 }
DataStrings == UNION { [1 .. n -> DataChars] : n \in 0 .. MaxDataLen }

\* The salts the cipher may draw.
Salts == { 64 + s : s \in 1 .. NumSalts }

\* The image files at hand: an RGBA8 pixel buffer of 4*w*h bytes, row-major.
CoverPixels(w, h, k) == [b \in 0 .. 4 * w * h - 1 |-> (53 * b + 101 * k + (b \div 4)) % 256]
Image(w, h, px) == [w |-> w, h |-> h, px |-> px]
NoImage == Image(0, 0, << >>)

\* The capacity in bits of a w x h image.
Capacity(w, h) == w * h * 3

\* A pixel buffer whose least significant bits, read in the order the password
\* gives, spell `bits` (at most Capacity(w, h) of them); all else is `base`.
RECURSIVE PositionOf(_, _, _)
PositionOf(order, pixel, k) == IF order[k] = pixel THEN k ELSE PositionOf(order, pixel, k + 1)

Carrying(w, h, base, order, bits) ==
    [b \in 0 .. 4 * w * h - 1 |->
        LET pos == 3 * PositionOf(order, b \div 4, 0) + (b % 4)
        IN  IF (b % 4) < 3 /\ pos < Len(bits)
            THEN 2 * (base[b] \div 2) + bits[pos + 1]
            ELSE base[b]]

\* The headers of the crafted images: lengths around the limits of a capacity,
\* and the two largest shapes of a 32-bit value.
CraftLengths(cap) == { n \in { 0, 1, 8, 17, cap - 33, cap - 32, cap - 31, cap, cap + 1 } : n >= 0 }
CraftHeaders(cap) ==
    { numberTo32BitBinary(n) : n \in CraftLengths(cap) }
        \cup { [k \in 1 .. 32 |-> 1], [k \in 1 .. 32 |-> IF k = 1 THEN 1 ELSE 0] }

(***************************************************************************)
(* State                                                                   *)
(***************************************************************************)
VARIABLES
    pc,               \* where the call in progress stands
    width, height,    \* canvas.width, canvas.height
    password,         \* the call's password
    data,             \* encode's data argument
    canvas,           \* the canvas' pixels (ctx)
    pixels,           \* imageData.data
    shuffledIndices,
    ciphertext,       \* encode: the cipher's output; decode: the unframed body
    payload,          \* encode: binaryLen + binaryCipher
    i, bitIndex,      \* encode's loop
    binaryLen, pixelOrderIndex, messageLength, binaryCipher, startChannel,  \* decode
    result,           \* what the call returned
    error,            \* what the call threw
    cover,            \* the cover image's pixels as loaded (history)
    encPassword,      \* the password of the encode call that made the image (history)
    derivs,           \* the calls of getShuffledPixelIndices in progress
    gen,              \* the state h of each call's generator closure
    calls,            \* how many calls were started
    fy,               \* shuffleArray run on its own with an arbitrary rng
    framer,           \* the framer applied to a string
    rng,              \* one generator closure: its seed, its state h, its calls
    ui                \* the App component's state and the operation in flight

codecVars == << pc, width, height, password, data, canvas, pixels, shuffledIndices,
                ciphertext, payload, i, bitIndex, binaryLen, pixelOrderIndex, messageLength,
                binaryCipher, startChannel, result, error, cover, encPassword >>
shuffleVars == << derivs, gen, calls, fy >>
framerVars == << framer >>
rngVars == << rng >>
uiVars == << ui >>
vars == << codecVars, shuffleVars, framerVars, rngVars, uiVars >>

NoResult == [kind |-> "none"]
NoError  == [kind |-> "none"]

CodecInit ==
    /\ pc = "idle"
    /\ width = 0 /\ height = 0
    /\ password = << >> /\ data = << >> /\ encPassword = << >>
    /\ canvas = << >> /\ pixels = << >> /\ cover = << >>
    /\ shuffledIndices = << >>
    /\ ciphertext = << >> /\ payload = << >>
    /\ i = 0 /\ bitIndex = 0
    /\ binaryLen = << >> /\ pixelOrderIndex = 0 /\ messageLength = << 0, 0 >>
    /\ binaryCipher = << >> /\ startChannel = 0
    /\ result = NoResult /\ error = NoError

Derivations == { 1, 2 }
IdleDerivation == [pc |-> "idle", pw |-> << >>, w |-> 0, h |-> 0, indices |-> << >>, i |-> 0]
IdleShuffle == [pc |-> "idle", array |-> << >>, n |-> 0, i |-> 0]

ShuffleIdle ==
    /\ derivs = [d \in Derivations |-> IdleDerivation]
    /\ gen = [d \in Derivations |-> 0]
    /\ calls = 0
    /\ fy = IdleShuffle
FramerIdle ==
    framer = [pc |-> "idle", str |-> << >>, binary |-> << >>, payload |-> << >>, chars |-> << >>]

RngIdle ==
    rng = [pc |-> "idle", seed |-> << >>, k |-> 0, h |-> 0, calls |-> 0,
           u |-> << 0, 0 >>, idx |-> 0, j |-> 0]

\* useState(...): the component's state at its first render, no operation in
\* flight.  A File or a string is held as "is there one", null as "null".
UiIdle ==
    ui = [mode |-> "encode", coverImage |-> FALSE, stegoImage |-> FALSE,
          secretText |-> FALSE, secretFiles |-> FALSE, password |-> FALSE,
          resultImageUrl |-> "null", extractedData |-> "null", isLoading |-> FALSE,
          error |-> "null", statusMessage |-> "", op |-> "none", sinceReset |-> FALSE]

Init == CodecInit /\ ShuffleIdle /\ FramerIdle /\ RngIdle /\ UiIdle

(***************************************************************************)
(* encode                                                                  *)
(***************************************************************************)
\* The calls the model makes: every size of the grid with every plaintext,
\* and the 10x10 image with a plaintext whose ciphertext has 40 characters.
ExampleData == [k \in 1 .. 39 |-> 97]
EncodeInputs ==
    ((1 .. MaxW) \X (1 .. MaxH) \X DataStrings) \cup { << 10, 10, ExampleData >> }

\* A faulty check: payload.length >= capacity.
CapacityReached(payloadLength, capacity) == payloadLength >= capacity

\* if (payload.length > capacity)
CapacityExceeded(payloadLength, capacity) == payloadLength > capacity

\* The error encode throws, with the two numbers of its message.
CapacityError(required, available) ==
    [kind |-> "CapacityExceeded", required |-> required, available |-> available]

\* binaryLen + binaryCipher for a ciphertext.
Frame(str) ==
    LET binaryCipher_ == stringToBinary(str)
        binaryLen_    == numberTo32BitBinary(Len(binaryCipher_))
    IN  binaryLen_ \o binaryCipher_

\* array.length of a 0-based array.
ArrayLength(array) == Cardinality(DOMAIN array)

\* A faulty stride: three bytes a pixel.
PixelIndexPacked(indices, k) == indices[k] * 3

\* shuffledIndices[i] * 4
PixelIndex(indices, k) == indices[k] * 4

\* A faulty write: the old bit 0 is not cleared.
WriteBitNoClear(value, bit) == Or(value, bit)

\* (pixels[p] & 0xFE) | parseInt(payload[bitIndex], 2)
WriteBit(value, bit) == Or(And(value, 254), bit)

\* if (bitIndex < payload.length) pixels[p] = ... payload[bitIndex++]:
\* st = <<pixels, bitIndex>> before, after.
EmbedChannel(st, bits, p) ==
    IF st[2] < Len(bits)
    THEN << [st[1] EXCEPT ![p] = WriteBit(st[1][p], bits[st[2] + 1])], st[2] + 1 >>
    ELSE st

\* A faulty encode that checks the capacity after the loop: the bits that fit
\* are written and put on the canvas, then the error is thrown.
EncodeStartCheckLast(w, h, k, d, pw, salt) ==
    /\ pc = "idle"
    /\ LET loaded     == CoverPixels(w, h, k)
           encrypted  == Encrypt(d, pw, salt)
           framed     == Frame(encrypted)
           capacity   == w * h * 3
       IN  /\ ciphertext' = encrypted
           /\ cover' = loaded
           /\ width' = w /\ height' = h
           /\ data' = d /\ password' = pw /\ encPassword' = pw
           /\ payload' = framed
           /\ IF CapacityExceeded(Len(framed), capacity)
              THEN /\ pc' = "enc_fail"
                   /\ error' = CapacityError(Len(framed), capacity)
                   /\ canvas' = Carrying(w, h, loaded, getShuffledPixelIndices(w, h, pw),
                                         SubSeq(framed, 1, capacity))
                   /\ UNCHANGED << pixels, shuffledIndices >>
              ELSE /\ pc' = "enc_walk"
                   /\ canvas' = loaded
                   /\ pixels' = loaded
                   /\ shuffledIndices' = getShuffledPixelIndices(w, h, pw)
                   /\ UNCHANGED error
    /\ i' = 0 /\ bitIndex' = 0
    /\ UNCHANGED << binaryLen, pixelOrderIndex, messageLength, binaryCipher,
                    startChannel, result, shuffleVars, framerVars, rngVars, uiVars >>

\* encode up to the loop: load the image, encrypt, frame, check the capacity,
\* read the canvas and derive the pixel order.
EncodeStart(w, h, k, d, pw, salt) ==
    /\ pc = "idle"
    /\ LET loaded     == CoverPixels(w, h, k)
           encrypted  == Encrypt(d, pw, salt)
           framed     == Frame(encrypted)
           capacity   == w * h * 3
       IN  /\ canvas' = loaded
           /\ ciphertext' = encrypted
           /\ cover' = loaded
           /\ width' = w /\ height' = h
           /\ data' = d /\ password' = pw /\ encPassword' = pw
           /\ payload' = framed
           /\ IF CapacityExceeded(Len(framed), capacity)
              THEN /\ pc' = "enc_fail"
                   /\ error' = CapacityError(Len(framed), capacity)
                   /\ UNCHANGED << pixels, shuffledIndices >>
              ELSE /\ pc' = "enc_walk"
                   /\ pixels' = loaded
                   /\ shuffledIndices' = getShuffledPixelIndices(w, h, pw)
                   /\ UNCHANGED error
    /\ i' = 0 /\ bitIndex' = 0
    /\ UNCHANGED << binaryLen, pixelOrderIndex, messageLength, binaryCipher,
                    startChannel, result, shuffleVars, framerVars, rngVars, uiVars >>

\* One iteration of encode's loop: the R, G and B channel of one pixel.
EncodeWalk ==
    /\ pc = "enc_walk"
    /\ i < ArrayLength(shuffledIndices) /\ bitIndex < Len(payload)
    /\ LET pixelIndex == PixelIndex(shuffledIndices, i)
           r == EmbedChannel(<< pixels, bitIndex >>, payload, pixelIndex)
           g == EmbedChannel(r, payload, pixelIndex + 1)
           b == EmbedChannel(g, payload, pixelIndex + 2)
       IN  /\ pixels' = b[1]
           /\ bitIndex' = b[2]
    /\ i' = i + 1
    /\ UNCHANGED << pc, width, height, password, data, canvas, shuffledIndices,
                    ciphertext, payload, binaryLen, pixelOrderIndex, messageLength, binaryCipher,
                    startChannel, result, error, cover, encPassword,
                    shuffleVars, framerVars, rngVars, uiVars >>

\* The loop is over: ctx.putImageData, canvas.toDataURL('image/png').
EncodeFinish ==
    /\ pc = "enc_walk"
    /\ ~ (i < ArrayLength(shuffledIndices) /\ bitIndex < Len(payload))
    /\ canvas' = pixels
    /\ result' = [kind |-> "image", image |-> Image(width, height, pixels)]
    /\ pc' = "enc_done"
    /\ UNCHANGED << width, height, password, data, pixels, shuffledIndices,
                    ciphertext, payload, i, bitIndex, binaryLen, pixelOrderIndex, messageLength, binaryCipher,
                    startChannel, error, cover, encPassword, shuffleVars, framerVars, rngVars, uiVars >>

(***************************************************************************)
(* decode                                                                  *)
(***************************************************************************)
\* The image files decode is given besides the one encode has just returned:
\* every cover, and for the sizes that can hold a header, every cover with a
\* crafted header written along the order of one of the passwords.
CraftedImages ==
    { Image(s[1], s[2], CoverPixels(s[1], s[2], k)) :
        s \in (1 .. MaxW) \X (1 .. MaxH), k \in 1 .. NumCovers }
    \cup
    UNION { { Image(s[1], s[2], Carrying(s[1], s[2], CoverPixels(s[1], s[2], k), order, hdr)) :
                hdr \in CraftHeaders(Capacity(s[1], s[2])), k \in 1 .. NumCovers,
                order \in { getShuffledPixelIndices(s[1], s[2], pw) } } :
            s \in { t \in (1 .. MaxW) \X (1 .. MaxH) : Capacity(t[1], t[2]) >= 32 },
            pw \in Passwords }

bitsUsedForLength == 32
channelsPerPixel == 3
\* Math.ceil(bitsUsedForLength / channelsPerPixel)
pixelsUsedForLength == (bitsUsedForLength + channelsPerPixel - 1) \div channelsPerPixel
leftoverBitsInLastPixel == (pixelsUsedForLength * channelsPerPixel) - bitsUsedForLength
\* A faulty resume: the body starts at the pixel after the header's last one.
BodyStartPixelNext == pixelsUsedForLength

\* The values pixelOrderIndex and startChannel take before the body loop.
BodyStartPixel == pixelsUsedForLength - 1
BodyStartChannel == channelsPerPixel - leftoverBitsInLastPixel

\* A faulty check: messageLength >= capacity.
InvalidLengthInclusive(length, capacity) ==
    NumNegative(length) \/ NumGreater(length, capacity - 1)

\* if (messageLength < 0 || messageLength > capacity)
InvalidLength(length, capacity) == NumNegative(length) \/ NumGreater(length, capacity)

\* (pixels[p] & 1).toString()
ReadBit(value) == And(value, 1)

\* A faulty header read: every channel is appended.
HeaderChannelUnguarded(bits, px, p) == Append(bits, ReadBit(px[p]))

\* if (binaryLen.length < 32) binaryLen += ...
HeaderChannel(bits, px, p) ==
    IF Len(bits) < 32 THEN Append(bits, ReadBit(px[p])) ELSE bits

\* A faulty body read: every channel is appended, whatever the length.
BodyChannelUnbounded(bits, length, px, p) == Append(bits, ReadBit(px[p]))

\* if (binaryCipher.length < messageLength) binaryCipher += ...
BodyChannel(bits, length, px, p) ==
    IF NumLess(Len(bits), length) THEN Append(bits, ReadBit(px[p])) ELSE bits

\* A faulty body walk: every pixel is read from its first channel.
BodyPixelWhole(bits, length, px, p, first) ==
    BodyChannel(BodyChannel(BodyChannel(bits, length, px, p), length, px, p + 1),
                length, px, p + 2)

\* The body bits after the for loop over the channels of the pixel at p.
BodyPixel(bits, length, px, p, first) ==
    LET c0 == IF first <= 0 THEN BodyChannel(bits, length, px, p) ELSE bits
        c1 == IF first <= 1 THEN BodyChannel(c0, length, px, p + 1) ELSE c0
    IN  IF first <= 2 THEN BodyChannel(c1, length, px, p + 2) ELSE c1

\* A faulty check: binaryCipher.length < messageLength - 1.
TruncatedOffByOne(collected, length) == NumLess(collected + 1, length)

\* if (binaryCipher.length < messageLength) after the body loop
Truncated(collected, length) == NumLess(collected, length)

\* A faulty try block: without if (!decryptedData) throw.
DecryptionThrew(unframed, pw) == DecryptThrows(unframed, pw)

\* The try block throws: decrypt or bytes.toString threw, or the decrypted
\* string is empty (if (!decryptedData) throw).
DecryptionFailed(unframed, pw) ==
    DecryptThrows(unframed, pw) \/ DecryptChars(unframed, pw) = << >>

DecodeError(kind) == [kind |-> kind]

\* decode up to the header loop: load the image, read the canvas, derive the
\* pixel order.  The image is the one encode has just returned, or a file.
DecodeStart(img, pw) ==
    /\ pc \in { "idle", "enc_done" }
    /\ width' = img.w /\ height' = img.h
    /\ canvas' = img.px /\ pixels' = img.px
    /\ password' = pw
    /\ shuffledIndices' = getShuffledPixelIndices(img.w, img.h, pw)
    /\ binaryLen' = << >> /\ bitIndex' = 0 /\ pixelOrderIndex' = 0
    /\ binaryCipher' = << >> /\ ciphertext' = << >>
    /\ result' = NoResult
    /\ pc' = "dec_header"
    /\ UNCHANGED << data, payload, i, messageLength, startChannel, error, cover,
                    encPassword, shuffleVars, framerVars, rngVars, uiVars >>

\* One iteration of the header loop: up to three channels of one pixel.
DecodeHeader ==
    /\ pc = "dec_header"
    /\ Len(binaryLen) < 32 /\ pixelOrderIndex < ArrayLength(shuffledIndices)
    /\ LET pixelIndex == PixelIndex(shuffledIndices, pixelOrderIndex)
       IN  binaryLen' =
               HeaderChannel(HeaderChannel(HeaderChannel(binaryLen, pixels, pixelIndex),
                                           pixels, pixelIndex + 1),
                             pixels, pixelIndex + 2)
    /\ pixelOrderIndex' = pixelOrderIndex + 1
    /\ UNCHANGED << pc, width, height, password, data, canvas, pixels, shuffledIndices,
                    ciphertext, payload, i, bitIndex, messageLength, binaryCipher, startChannel,
                    result, error, cover, encPassword, shuffleVars, framerVars, rngVars, uiVars >>

\* After the header loop: the header-read error, the parse, the length check,
\* and the position the body loop starts from.
DecodeParse ==
    /\ pc = "dec_header"
    /\ ~ (Len(binaryLen) < 32 /\ pixelOrderIndex < ArrayLength(shuffledIndices))
    /\ IF Len(binaryLen) < 32
       THEN /\ pc' = "dec_fail"
            /\ error' = DecodeError("HeaderRead")
            /\ UNCHANGED << messageLength, pixelOrderIndex, startChannel >>
       ELSE LET length == binaryToNumber(binaryLen)
            IN  /\ messageLength' = length
                /\ IF InvalidLength(length, width * height * 3)
                   THEN /\ pc' = "dec_fail"
                        /\ error' = DecodeError("InvalidLength")
                        /\ UNCHANGED << pixelOrderIndex, startChannel >>
                   ELSE /\ pc' = "dec_body"
                        /\ pixelOrderIndex' = BodyStartPixel
                        /\ startChannel' = BodyStartChannel
                        /\ UNCHANGED error
    /\ UNCHANGED << width, height, password, data, canvas, pixels, shuffledIndices,
                    ciphertext, payload, i, bitIndex, binaryLen, binaryCipher, result, cover,
                    encPassword, shuffleVars, framerVars, rngVars, uiVars >>

\* One iteration of the body loop: the channels of one pixel from startChannel.
DecodeBody ==
    /\ pc = "dec_body"
    /\ NumLess(Len(binaryCipher), messageLength) /\ pixelOrderIndex < ArrayLength(shuffledIndices)
    /\ binaryCipher' = BodyPixel(binaryCipher, messageLength, pixels,
                                 PixelIndex(shuffledIndices, pixelOrderIndex), startChannel)
    /\ startChannel' = 0
    /\ pixelOrderIndex' = pixelOrderIndex + 1
    /\ UNCHANGED << pc, width, height, password, data, canvas, pixels, shuffledIndices,
                    ciphertext, payload, i, bitIndex, binaryLen, messageLength, result, error,
                    cover, encPassword, shuffleVars, framerVars, rngVars, uiVars >>

\* After the body loop: the truncation error, unframing and decryption.
DecodeFinish ==
    /\ pc = "dec_body"
    /\ ~ (NumLess(Len(binaryCipher), messageLength) /\ pixelOrderIndex < ArrayLength(shuffledIndices))
    /\ IF Truncated(Len(binaryCipher), messageLength)
       THEN /\ pc' = "dec_fail"
            /\ error' = DecodeError("Truncated")
            /\ UNCHANGED << ciphertext, result >>
       ELSE LET unframed == binaryToString(binaryCipher)
            IN  /\ ciphertext' = unframed
                /\ IF DecryptionFailed(unframed, password)
                   THEN /\ pc' = "dec_fail"
                        /\ error' = DecodeError("Decryption")
                        /\ UNCHANGED result
                   ELSE /\ pc' = "dec_done"
                        /\ result' = [kind |-> "text", text |-> DecryptChars(unframed, password)]
                        /\ UNCHANGED error
    /\ UNCHANGED << width, height, password, data, canvas, pixels, shuffledIndices,
                    payload, i, bitIndex, binaryLen, pixelOrderIndex, messageLength,
                    binaryCipher, startChannel, cover, encPassword, shuffleVars, framerVars, rngVars, uiVars >>

Next ==
    \/ /\ pc = "idle"
       /\ \E inp \in EncodeInputs, k \in 1 .. NumCovers, pw \in Passwords, salt \in Salts :
              EncodeStart(inp[1], inp[2], k, inp[3], pw, salt)
    \/ EncodeWalk
    \/ EncodeFinish
    \/ /\ pc = "idle"
       /\ \E img \in CraftedImages, pw \in Passwords : DecodeStart(img, pw)
    \/ /\ pc = "enc_done"
       /\ \E pw \in Passwords : DecodeStart(result.image, pw)
    \/ DecodeHeader
    \/ DecodeParse
    \/ DecodeBody
    \/ DecodeFinish

Spec == Init /\ [][Next]_vars

(***************************************************************************)
(* Permutation derivations, one step of the shuffle at a time.  The code   *)
(* runs a derivation to its end before anything else; here the swaps of    *)
(* several derivations may interleave, each with the closure it created.   *)
(***************************************************************************)
\* A faulty generator: one variable h shared by every call.
SharedClosure(d) == 1

\* The closure a derivation's rng is: each call of createSeededRandom makes
\* its own variable h.
ClosureOf(d) == d

\* getShuffledPixelIndices up to the loop of shuffleArray: the index array is
\* built, the password hashed, the closure made.
DeriveStart(d, w, h, pw) ==
    /\ derivs[d].pc = "idle"
    /\ fy.pc = "idle"
    /\ calls < MaxCalls
    /\ calls' = calls + 1
    /\ gen' = [gen EXCEPT ![ClosureOf(d)] = createSeededRandom(SHA256(pw))]
    /\ derivs' = [derivs EXCEPT ![d] =
                    [pc |-> "shuffling", pw |-> pw, w |-> w, h |-> h,
                     indices |-> IdentityIndices(w * h), i |-> w * h - 1]]
    /\ UNCHANGED << fy, codecVars, framerVars, rngVars, uiVars >>

\* One iteration of shuffleArray's loop in derivation d.
DeriveSwap(d) ==
    /\ derivs[d].pc = "shuffling"
    /\ derivs[d].i > 0
    /\ LET st == ShuffleStep(<< derivs[d].indices, gen[ClosureOf(d)] >>, derivs[d].i)
       IN  /\ derivs' = [derivs EXCEPT ![d].indices = st[1], ![d].i = derivs[d].i - 1]
           /\ gen' = [gen EXCEPT ![ClosureOf(d)] = st[2]]
    /\ UNCHANGED << calls, fy, codecVars, framerVars, rngVars, uiVars >>

\* The loop is over: return indices.
DeriveReturn(d) ==
    /\ derivs[d].pc = "shuffling"
    /\ ~ (derivs[d].i > 0)
    /\ derivs' = [derivs EXCEPT ![d].pc = "done"]
    /\ UNCHANGED << gen, calls, fy, codecVars, framerVars, rngVars, uiVars >>

\* The caller is done with the result and the closure is dropped; the slot
\* takes the next call.
DeriveNext(d) ==
    /\ derivs[d].pc = "done"
    /\ calls < MaxCalls
    /\ derivs' = [derivs EXCEPT ![d] = IdleDerivation]
    /\ gen' = [gen EXCEPT ![d] = 0]
    /\ UNCHANGED << calls, fy, codecVars, framerVars, rngVars, uiVars >>

\* Values an arbitrary rng may return, as numerators u of u / 2^32: the ends
\* of [0, 1) and the two values around 1/2.
RngSamples == { << 0, 0 >>, << 32767, 65535 >>, << 32768, 0 >>, << 65535, 65535 >> }

\* shuffleArray(array, rng) on the array 0..n-1 with an arbitrary rng.
FreeStart(n) ==
    /\ fy.pc = "idle"
    /\ calls = 0
    /\ fy' = [pc |-> "shuffling", array |-> IdentityIndices(n), n |-> n, i |-> n - 1]
    /\ UNCHANGED << derivs, gen, calls, codecVars, framerVars, rngVars, uiVars >>

\* One iteration of the loop, the rng returning u / 2^32.
FreeSwap(u) ==
    /\ fy.pc = "shuffling"
    /\ fy.i > 0
    /\ fy' = [fy EXCEPT !.array = Swap(fy.array, fy.i, FloorScale(u, fy.i + 1)),
                        !.i = fy.i - 1]
    /\ UNCHANGED << derivs, gen, calls, codecVars, framerVars, rngVars, uiVars >>

FreeReturn ==
    /\ fy.pc = "shuffling"
    /\ ~ (fy.i > 0)
    /\ fy' = [fy EXCEPT !.pc = "done"]
    /\ UNCHANGED << derivs, gen, calls, codecVars, framerVars, rngVars, uiVars >>

ShuffleNext ==
    \/ \E d \in Derivations, w \in 1 .. MaxShuffleW, h \in 1 .. MaxShuffleH, pw \in Passwords :
           DeriveStart(d, w, h, pw)
    \/ \E d \in Derivations : DeriveSwap(d)
    \/ \E d \in Derivations : DeriveReturn(d)
    \/ \E d \in Derivations : DeriveNext(d)
    \/ \E n \in 1 .. MaxFreeLen : FreeStart(n)
    \/ \E u \in RngSamples : FreeSwap(u)
    \/ FreeReturn

SpecShuffle == Init /\ [][ShuffleNext]_vars

(***************************************************************************)
(* The framer on its own: frame a string, then unframe what was framed.    *)
(***************************************************************************)
MaxFrameLen == 3

\* Characters of the strings framed: NUL, "A", U+00FF, U+0100 and U+20AC.
FrameChars == { 0, 65, 255, 256, 8364 }
FrameStrings == UNION { [1 .. n -> FrameChars] : n \in 0 .. MaxFrameLen }

\* encode's framing of a ciphertext: stringToBinary, numberTo32BitBinary, the
\* concatenation.
FrameString(str) ==
    /\ framer.pc = "idle"
    /\ framer' = [pc |-> "framed", str |-> str, binary |-> stringToBinary(str),
                  payload |-> Frame(str), chars |-> << >>]
    /\ UNCHANGED << codecVars, shuffleVars, rngVars, uiVars >>

\* decode's unframing of the payload: the header parsed, that many bits taken
\* after it, binaryToString.
Unframe ==
    /\ framer.pc = "framed"
    /\ LET length == binaryToNumber(SubSeq(framer.payload, 1, 32))
       IN  framer' = [framer EXCEPT
                        !.pc = "unframed",
                        !.chars = binaryToString(SubSeq(framer.payload, 33, 32 + length[2]))]
    /\ UNCHANGED << codecVars, shuffleVars, rngVars, uiVars >>

FramerNext ==
    \/ \E str \in FrameStrings : FrameString(str)
    \/ Unframe

SpecFramer == Init /\ [][FramerNext]_vars

(***************************************************************************)
(* One generator on its own: createSeededRandom(seed) one loop iteration at *)
(* a time, then calls of the closure, each used as shuffleArray uses it.   *)
(***************************************************************************)
MaxSeedLen  == 2
MaxRngCalls == 3
MaxRngIndex == 3

\* The seeds: strings over "0", "f", U+00FF and U+FFFF of length 0..MaxSeedLen,
\* and the two digests the passwords of the model hash to.
SeedChars == { 48, 102, 255, 65535 }
Seeds == UNION { [1 .. n -> SeedChars] : n \in 0 .. MaxSeedLen } \cup { HashOfA, HashOfB }

\* let h = 1779033703 ^ seed.length
RngCreate(seed) ==
    /\ rng.pc = "idle"
    /\ rng' = [rng EXCEPT !.pc = "seeding", !.seed = seed, !.k = 0,
                          !.h = Xor(SeedInit, Len(seed))]
    /\ UNCHANGED << codecVars, shuffleVars, framerVars, uiVars >>

\* One iteration of the seeding loop.
RngSeedChar ==
    /\ rng.pc = "seeding"
    /\ rng.k < Len(rng.seed)
    /\ rng' = [rng EXCEPT !.k = rng.k + 1, !.h = SeedStep(rng.h, rng.seed[rng.k + 1])]
    /\ UNCHANGED << codecVars, shuffleVars, framerVars, uiVars >>

\* The loop is over: the closure is returned.
RngReturn ==
    /\ rng.pc = "seeding"
    /\ ~ (rng.k < Len(rng.seed))
    /\ rng' = [rng EXCEPT !.pc = "ready"]
    /\ UNCHANGED << codecVars, shuffleVars, framerVars, uiVars >>

\* const j = Math.floor(rng() * (i + 1)) at index idx of shuffleArray's loop.
RngCall(idx) ==
    /\ rng.pc = "ready"
    /\ rng.calls < MaxRngCalls
    /\ LET hn == RngNextState(rng.h)
       IN  rng' = [rng EXCEPT !.h = hn, !.calls = rng.calls + 1, !.u = RngOutput(hn),
                              !.idx = idx, !.j = FloorScale(RngOutput(hn), idx + 1)]
    /\ UNCHANGED << codecVars, shuffleVars, framerVars, uiVars >>

RngNext ==
    \/ \E seed \in Seeds : RngCreate(seed)
    \/ RngSeedChar
    \/ RngReturn
    \/ \E idx \in 1 .. MaxRngIndex : RngCall(idx)

SpecRng == Init /\ [][RngNext]_vars

(***************************************************************************)
(* The App component: the form, the two tabs and the handlers.  encode and  *)
(* decode are awaited: between a handler's start and the settling of its   *)
(* promise any other event of the page may be handled.                     *)
(***************************************************************************)
Modes == { "encode", "decode" }

\* What a state setter leaves alone.
UiFrame == UNCHANGED << codecVars, shuffleVars, framerVars, rngVars >>

\* <ImageDropzone file={coverImage} onFileChange={setCoverImage} />
SetCoverImage(file) ==
    /\ ui.mode = "encode"
    /\ ui' = [ui EXCEPT !.coverImage = file]
    /\ UiFrame

\* <ImageDropzone file={stegoImage} onFileChange={setStegoImage} />
SetStegoImage(file) ==
    /\ ui.mode = "decode"
    /\ ui' = [ui EXCEPT !.stegoImage = file]
    /\ UiFrame

\* The textarea (disabled while files are selected): setSecretText, setSecretFiles([]).
TypeSecretText(text) ==
    /\ ui.mode = "encode"
    /\ ~ ui.secretFiles
    /\ ui' = [ui EXCEPT !.secretText = text, !.secretFiles = FALSE]
    /\ UiFrame

\* The file input: setSecretFiles(files), setSecretText('').
PickSecretFiles ==
    /\ ui.mode = "encode"
    /\ ui' = [ui EXCEPT !.secretFiles = TRUE, !.secretText = FALSE]
    /\ UiFrame

\* The "clear" button shown while files are selected: setSecretFiles([]).
ClearSecretFiles ==
    /\ ui.mode = "encode"
    /\ ui.secretFiles
    /\ ui' = [ui EXCEPT !.secretFiles = FALSE]
    /\ UiFrame

\* The password input of either pane.
TypePassword(text) ==
    /\ ui' = [ui EXCEPT !.password = text]
    /\ UiFrame

\* resetState: every field of the form and of the result, not isLoading.
resetState(u) ==
    [u EXCEPT !.coverImage = FALSE, !.stegoImage = FALSE, !.secretText = FALSE,
              !.secretFiles = FALSE, !.password = FALSE, !.resultImageUrl = "null",
              !.extractedData = "null", !.error = "null", !.statusMessage = ""]

\* A tab button (never disabled): setMode(newMode); resetState().
handleModeChange(newMode) ==
    /\ ui' = [resetState(ui) EXCEPT !.mode = newMode, !.sinceReset = TRUE]
    /\ UiFrame

\* The Encode button (disabled while isLoading): handleEncode up to its first
\* await, or to the return of a failed validation.
handleEncode ==
    /\ ui.mode = "encode"
    /\ ~ ui.isLoading
    /\ ui' = IF ~ ui.coverImage
             THEN [ui EXCEPT !.error = "NoCoverImage", !.sinceReset = FALSE]
             ELSE IF ~ ui.secretText /\ ~ ui.secretFiles
             THEN [ui EXCEPT !.error = "NoSecret", !.sinceReset = FALSE]
             ELSE IF ~ ui.password
             THEN [ui EXCEPT !.error = "NoPassword", !.sinceReset = FALSE]
             ELSE [ui EXCEPT !.isLoading = TRUE, !.error = "null",
                             !.resultImageUrl = "null", !.statusMessage = "Encrypting",
                             !.op = "encode", !.sinceReset = FALSE]
    /\ UiFrame

\* await encode(...) returned: setResultImageUrl, setStatusMessage, finally.
EncodeResolved ==
    /\ ui.op = "encode"
    /\ ui' = [ui EXCEPT !.resultImageUrl = "url", !.statusMessage = "EncodingComplete",
                        !.isLoading = FALSE, !.op = "none"]
    /\ UiFrame

\* A promise of the try block was rejected: catch, finally.
EncodeRejected ==
    /\ ui.op = "encode"
    /\ ui' = [ui EXCEPT !.error = "EncodeFailed", !.isLoading = FALSE, !.op = "none"]
    /\ UiFrame

\* The Decode button (disabled while isLoading): handleDecode up to its await,
\* or to the return of a failed validation.
handleDecode ==
    /\ ui.mode = "decode"
    /\ ~ ui.isLoading
    /\ ui' = IF ~ ui.stegoImage
             THEN [ui EXCEPT !.error = "NoStegoImage", !.sinceReset = FALSE]
             ELSE IF ~ ui.password
             THEN [ui EXCEPT !.error = "NoPassword", !.sinceReset = FALSE]
             ELSE [ui EXCEPT !.isLoading = TRUE, !.error = "null",
                             !.extractedData = "null", !.statusMessage = "Extracting",
                             !.op = "decode", !.sinceReset = FALSE]
    /\ UiFrame

\* await decode(...) returned a tagged string: setExtractedData of its type,
\* setStatusMessage, finally.
DecodeResolved(type) ==
    /\ ui.op = "decode"
    /\ ui' = [ui EXCEPT !.extractedData = type, !.statusMessage = "DecodingComplete",
                        !.isLoading = FALSE, !.op = "none"]
    /\ UiFrame

\* decode threw, or its result had no known tag or no valid bundle: catch,
\* finally.
DecodeRejected ==
    /\ ui.op = "decode"
    /\ ui' = [ui EXCEPT !.error = "DecodeFailed", !.isLoading = FALSE, !.op = "none"]
    /\ UiFrame

UiNext ==
    \/ \E file \in BOOLEAN : SetCoverImage(file)
    \/ \E file \in BOOLEAN : SetStegoImage(file)
    \/ \E text \in BOOLEAN : TypeSecretText(text)
    \/ PickSecretFiles
    \/ ClearSecretFiles
    \/ \E text \in BOOLEAN : TypePassword(text)
    \/ \E newMode \in Modes : handleModeChange(newMode)
    \/ handleEncode
    \/ EncodeResolved
    \/ EncodeRejected
    \/ handleDecode
    \/ \E type \in { "text", "files" } : DecodeResolved(type)
    \/ DecodeRejected

SpecUI == Init /\ [][UiNext]_vars

(***************************************************************************)
(* Properties                                                              *)
(***************************************************************************)
\* The least significant bit at position k (0-based) of the walk over px in
\* the given order: channel k mod 3 of pixel order[k div 3].
WalkBit(px, order, k) == px[order[k \div 3] * 4 + (k % 3)] % 2

\* The position in the walk of byte b of the pixel buffer (for an R, G or B
\* byte; an alpha byte gets the position after its pixel's B).
WalkPosition(order, b) == 3 * PositionOf(order, b \div 4, 0) + (b % 4)

\* array holds every index of 0..n-1 exactly once.
IsPermutation(array, n) ==
    /\ DOMAIN array = 0 .. n - 1
    /\ \A v \in 0 .. n - 1 : Cardinality({ k \in 0 .. n - 1 : array[k] = v }) = 1

\* The header decode has read, as the values of its first and last 16 digits.
HeaderHi == ParseBits(SubSeq(binaryLen, 1, 16))
HeaderLo == ParseBits(SubSeq(binaryLen, 17, 32))

\* A decode of the image the encode call of this behaviour returned, with the
\* password of that call, has come to its end.
SamePasswordDecodeOver ==
    pc \in { "dec_done", "dec_fail" } /\ encPassword # << >> /\ password = encPassword

\* C1 as stated: decode with encode's password returns exactly the data that
\* was embedded, for every data string that fits, the empty one included.
C1_RoundTripAnyData ==
    SamePasswordDecodeOver
        => (pc = "dec_done" /\ result = [kind |-> "text", text |-> data])

\* C1 amended: decode with encode's password returns exactly the data that was
\* embedded, for every non-empty data string that fits; for the empty data
\* string it fails with the decryption error.
C1_RoundTrip ==
    SamePasswordDecodeOver
        => IF data # << >>
           THEN pc = "dec_done" /\ result = [kind |-> "text", text |-> data]
           ELSE pc = "dec_fail" /\ error = DecodeError("Decryption")

\* A non-empty string came back from an image its payload fills to the last bit.
C1_RoundTripReached ==
    /\ SamePasswordDecodeOver
    /\ pc = "dec_done"
    /\ data # << >>
    /\ Len(payload) = width * height * 3
    /\ result.text = data

\* C2: encode fails with the capacity error exactly when the payload has more
\* than W*H*3 bits; the error carries the payload length and W*H*3; a payload
\* that fits, one of exactly W*H*3 bits too, is embedded to its last bit.
C2_CapacityBoundary ==
    pc \in { "enc_walk", "enc_done", "enc_fail" } =>
        /\ (pc = "enc_fail") <=> (Len(payload) > width * height * 3)
        /\ (pc = "enc_fail") => (error = CapacityError(Len(payload), width * height * 3))
        /\ (pc = "enc_done") => (bitIndex = Len(payload) /\ result.kind = "image")

\* The 10x10 image and the 40-character ciphertext: 352 bits against 300.
C2_ExampleRejected ==
    /\ pc = "enc_fail"
    /\ width = 10 /\ height = 10
    /\ Len(ciphertext) = 40
    /\ error = CapacityError(352, 300)

\* C3: when encode fails with the capacity error, the canvas holds every byte
\* as it was loaded, no pixel buffer was taken from it and no image returned.
C3_NoPartialEmbedding ==
    (pc = "enc_fail") => (canvas = cover /\ pixels = << >> /\ result = NoResult)

\* encode failed on an image that could have taken the header and more.
C3_RejectedWithRoom ==
    /\ pc = "enc_fail"
    /\ error.kind = "CapacityExceeded"
    /\ width * height * 3 >= 48
    /\ canvas = cover

\* C4: the index array of getShuffledPixelIndices is a permutation of
\* 0..W*H-1 after every swap and when it is returned; so is the array of
\* shuffleArray after every swap, whatever the generator returns.
C4_Permutation ==
    /\ \A d \in Derivations :
           (derivs[d].pc \in { "shuffling", "done" })
               => IsPermutation(derivs[d].indices, derivs[d].w * derivs[d].h)
    /\ (fy.pc \in { "shuffling", "done" }) => IsPermutation(fy.array, fy.n)

\* A derivation returned an order of six pixels that is not the identity.
C4_ShuffledReturned ==
    \E d \in Derivations :
        /\ derivs[d].pc = "done"
        /\ derivs[d].w * derivs[d].h = 6
        /\ derivs[d].indices # IdentityIndices(6)

\* C5: two derivations with the same password, width and height return the
\* same order, whatever ran before them or between their steps.
C5_Determinism ==
    \A d1, d2 \in Derivations :
        (/\ derivs[d1].pc = "done" /\ derivs[d2].pc = "done"
         /\ derivs[d1].pw = derivs[d2].pw
         /\ derivs[d1].w = derivs[d2].w /\ derivs[d1].h = derivs[d2].h)
            => derivs[d1].indices = derivs[d2].indices

\* Two derivations with the same inputs have returned, a third call made
\* before or between them.
C5_SameInputsReturned ==
    /\ calls >= 3
    /\ derivs[1].pc = "done" /\ derivs[2].pc = "done"
    /\ derivs[1].pw = derivs[2].pw
    /\ derivs[1].w = derivs[2].w /\ derivs[1].h = derivs[2].h
    /\ derivs[1].w * derivs[1].h >= 4
    /\ derivs[1].indices # IdentityIndices(derivs[1].w * derivs[1].h)

\* C6: encode changes nothing in the pixel buffer but bit 0 of the R, G, B
\* bytes at the walk positions it has written (all of them below the payload
\* length): alpha bytes, bits 1..7, the rest of the last pixel used and the
\* pixels after it keep their values.
C6_EmbedFrame ==
    pc \in { "enc_walk", "enc_done" } =>
        /\ bitIndex <= Len(payload)
        /\ \A b \in 0 .. 4 * width * height - 1 :
               IF (b % 4) < 3 /\ WalkPosition(shuffledIndices, b) < bitIndex
               THEN pixels[b] \div 2 = cover[b] \div 2
               ELSE pixels[b] = cover[b]

\* encode is over, its last pixel used in part and pixels left after it.
C6_PartialLastPixel ==
    /\ pc = "enc_done"
    /\ (bitIndex % 3) # 0
    /\ i < width * height
    /\ pixels # cover

\* C7: a payload is 32 header bits followed by the body, and the header read
\* as a big-endian unsigned integer is the bit length of the body.
C7_FramingInvariant ==
    (framer.pc # "idle") =>
        /\ Len(framer.payload) >= 32
        /\ ParseBits(SubSeq(framer.payload, 1, 32)) = Len(framer.payload) - 32
        /\ SubSeq(framer.payload, 33, Len(framer.payload)) = framer.binary

\* A string of three 8-bit characters was framed: 32 + 24 bits.
C7_ThreeCharactersFramed ==
    /\ framer.pc = "framed"
    /\ Len(framer.str) = 3
    /\ Len(framer.payload) = 56

\* C8: framing maps every character to exactly 8 bits: the body has 8 times
\* as many bits as the string has characters.
C8_EightBitsPerCharacter ==
    (framer.pc # "idle") => (Len(framer.binary) = 8 * Len(framer.str))

\* The header names a body that fits the image behind the header.
BodyFits ==
    Len(binaryLen) = 32 /\ HeaderHi = 0 /\ HeaderLo + 32 <= width * height * 3

\* What C9 says of the bits: decode never holds more body bits than the header
\* names, and ends with exactly that many, those of the walk after the header.
ExactBody ==
    /\ Len(binaryCipher) <= HeaderLo
    /\ (pc \in { "dec_done", "dec_fail" }) =>
           /\ error.kind \in { "none", "Decryption" }
           /\ binaryCipher = [k \in 1 .. HeaderLo |-> WalkBit(pixels, shuffledIndices, 31 + k)]

C10_InvalidLength ==
    (Len(binaryLen) = 32 /\ pc \in { "dec_body", "dec_done", "dec_fail" }) =>
        /\ (error.kind = "InvalidLength") <=> (HeaderHi > 0 \/ HeaderLo > width * height * 3)
        /\ (error.kind = "InvalidLength") => (pc = "dec_fail" /\ binaryCipher = << >>)

\* A header of W*H*3 + 1 was rejected.
C10_OneOverRejected ==
    /\ pc = "dec_fail"
    /\ error.kind = "InvalidLength"
    /\ HeaderHi = 0
    /\ HeaderLo = width * height * 3 + 1

\* C11: for a header L with W*H*3 - 32 < L <= W*H*3 decode runs out of pixels
\* and fails with the truncated-payload error, nothing unframed, nothing
\* returned; for a smaller L it does not fail that way.
C11_TruncatedPayload ==
    (/\ pc \in { "dec_done", "dec_fail" }
     /\ Len(binaryLen) = 32 /\ HeaderHi = 0 /\ HeaderLo <= width * height * 3) =>
        /\ (error.kind = "Truncated") <=> (HeaderLo > width * height * 3 - 32)
        /\ (error.kind = "Truncated") =>
               /\ pc = "dec_fail"
               /\ pixelOrderIndex = width * height
               /\ Len(binaryCipher) = width * height * 3 - 32
               /\ ciphertext = << >>
               /\ result = NoResult

\* A header equal to W*H*3 was decoded and the pixels ran out.
C11_FullCapacityHeaderTruncated ==
    /\ pc = "dec_fail"
    /\ error.kind = "Truncated"
    /\ Len(binaryLen) = 32 /\ HeaderHi = 0
    /\ HeaderLo = width * height * 3

\* C12: decode fails with the header-read error exactly when W*H*3 < 32; it
\* has then read every channel bit there is, parsed no length and read no
\* body; otherwise the header read has yielded exactly 32 bits.
C12_HeaderRead ==
    (pc \in { "dec_body", "dec_done", "dec_fail" }) =>
        /\ (error.kind = "HeaderRead") <=> (width * height * 3 < 32)
        /\ (error.kind = "HeaderRead") =>
               /\ pc = "dec_fail"
               /\ Len(binaryLen) = width * height * 3
               /\ messageLength = << 0, 0 >>
               /\ binaryCipher = << >>
               /\ result = NoResult
        /\ (error.kind # "HeaderRead") => (Len(binaryLen) = 32 /\ width * height >= 11)

\* An image of ten pixels was rejected after its 30 bits were read.
C12_TenPixelsRejected ==
    /\ pc = "dec_fail"
    /\ error.kind = "HeaderRead"
    /\ width * height = 10
    /\ Len(binaryLen) = 30

\* C13: decode returns a text exactly when decryption neither threw nor
\* yielded the empty string, and the text is what decryption yielded; in the
\* other cases it fails with the decryption error and returns nothing.
C13_DecryptionOutcome ==
    (pc \in { "dec_done", "dec_fail" } /\ error.kind \in { "none", "Decryption" }) =>
        /\ (pc = "dec_done") <=>
               (/\ ~ DecryptThrows(ciphertext, password)
                /\ DecryptChars(ciphertext, password) # << >>)
        /\ (pc = "dec_done") =>
               /\ result = [kind |-> "text", text |-> DecryptChars(ciphertext, password)]
               /\ result.text # << >>
               /\ error = NoError
        /\ (pc = "dec_fail") => (error = DecodeError("Decryption") /\ result = NoResult)

\* Decryption went through and yielded the empty string: decode failed.
C13_EmptyPlaintextRejected ==
    /\ pc = "dec_fail"
    /\ error.kind = "Decryption"
    /\ ciphertext # << >>
    /\ ~ DecryptThrows(ciphertext, password)
    /\ DecryptChars(ciphertext, password) = << >>

\* C14: the bits decode has read, header then body, are the least significant
\* bits along the walk, bit k from channel k mod 3 of pixel order[k div 3],
\* none read twice and none skipped; the first body bit comes from the B
\* channel of the 11th pixel.
C14_CursorAlignment ==
    (pc \in { "dec_header", "dec_body", "dec_done", "dec_fail" }) =>
        /\ \A k \in 1 .. Len(binaryLen) + Len(binaryCipher) :
               (binaryLen \o binaryCipher)[k] = WalkBit(pixels, shuffledIndices, k - 1)
        /\ (binaryCipher # << >>) =>
               (binaryCipher[1] = pixels[shuffledIndices[10] * 4 + 2] % 2)

\* A decode went through header and body: the body of at least 16 bits began
\* in the B channel of the 11th pixel and went on in the R channel of the 12th.
C14_BodyReadAcrossPixels ==
    /\ pc = "dec_done"
    /\ Len(binaryLen) = 32
    /\ Len(binaryCipher) >= 16
    /\ binaryCipher[1] = pixels[shuffledIndices[10] * 4 + 2] % 2
    /\ binaryCipher[2] = pixels[shuffledIndices[11] * 4] % 2

\* C15: the payload bits encode has written went to pairwise distinct
\* (pixel, channel) pairs, and bit 0 of channel k mod 3 of pixel order[k div 3]
\* is payload bit k for every k written; when the walk ends every payload bit
\* is written.
C15_NoAliasing ==
    (pc \in { "enc_walk", "enc_done" }) =>
        /\ \A k \in 0 .. bitIndex - 1 :
               WalkBit(pixels, shuffledIndices, k) = payload[k + 1]
        /\ \A k1, k2 \in 0 .. bitIndex - 1 :
               (k1 # k2) =>
                   (<< shuffledIndices[k1 \div 3], k1 % 3 >>
                        # << shuffledIndices[k2 \div 3], k2 % 3 >>)
        /\ (pc = "enc_done") => (bitIndex = Len(payload))

\* A payload of 56 bits was embedded whole, and it changed the buffer.
C15_PayloadEmbedded ==
    /\ pc = "enc_done"
    /\ Len(payload) = 56
    /\ bitIndex = 56
    /\ pixels # cover

\* Unsigned 32-bit arithmetic modulo 2^32 on pairs <<hi, lo>> of 16-bit
\* halves: XOR bit by bit, sum with carry, product by doubling and adding.
RECURSIVE XorNat(_, _)
XorNat(x, y) ==
    IF x = 0 /\ y = 0 THEN 0
    ELSE (((x % 2) + (y % 2)) % 2) + 2 * XorNat(x \div 2, y \div 2)

UXor(a, b) == << XorNat(a[1], b[1]), XorNat(a[2], b[2]) >>

UAdd(a, b) ==
    << (a[1] + b[1] + ((a[2] + b[2]) \div 65536)) % 65536, (a[2] + b[2]) % 65536 >>

UHalf(b) == << b[1] \div 2, ((b[1] % 2) * 32768) + (b[2] \div 2) >>

\* (Intermediate values are bound through singleton sets, here and below, only
\* to have them computed once.)
RECURSIVE UMul(_, _)
UMul(a, b) ==
    IF b = << 0, 0 >> THEN << 0, 0 >>
    ELSE CHOOSE r \in { UAdd(IF (b[2] % 2) = 1 THEN a ELSE << 0, 0 >>, m) :
                           m \in { UMul(a2, b2) : a2 \in { UAdd(a, a) }, b2 \in { UHalf(b) } } } :
             TRUE

\* h rotated left by 13 bits within 32 bits; h shifted right by 16 and by 13.
URotl13(h) ==
    << ((h[1] % 8) * 8192) + (h[2] \div 8), ((h[2] % 8) * 8192) + (h[1] \div 8) >>
UShr16(h) == << 0, h[1] >>
UShr13(h) == << h[1] \div 8192, ((h[1] % 8192) * 8) + (h[2] \div 8192) >>

\* 1779033703, 3432918353, 2246822507 and 3266489909 as halves.
USeedInit == << 27145, 58983 >>
USeedMul  == << 52382, 11601 >>
UStepMul1 == << 34283, 51819 >>
UStepMul2 == << 49842, 44597 >>

\* h = (h XOR charcode) * 3432918353 mod 2^32, then rotate-left by 13.
USeedStep(h, c) ==
    CHOOSE r \in { URotl13(m) : m \in { UMul(x, USeedMul) : x \in { UXor(h, << 0, c >>) } } } :
        TRUE

\* The step function.
UStep(h) ==
    CHOOSE r \in
        { UXor(h2, UShr16(h2)) :
            h2 \in { UMul(x2, UStepMul2) :
                x2 \in { UXor(h1, UShr13(h1)) :
                    h1 \in { UMul(x1, UStepMul1) : x1 \in { UXor(h, UShr16(h)) } } } } } :
        TRUE

\* The characters seed[lo..hi] absorbed in order, from the state h.
RECURSIVE UAbsorb(_, _, _, _)
UAbsorb(h, seed, lo, hi) ==
    IF lo > hi THEN h
    ELSE IF lo = hi THEN USeedStep(h, seed[lo])
    ELSE CHOOSE r \in { UAbsorb(hm, seed, ((lo + hi) \div 2) + 1, hi) :
                           hm \in { UAbsorb(h, seed, lo, (lo + hi) \div 2) } } : TRUE

\* n steps from the state h.
RECURSIVE USteps(_, _)
USteps(h, n) ==
    IF n = 0 THEN h
    ELSE CHOOSE r \in { UStep(hp) : hp \in { USteps(h, n - 1) } } : TRUE

\* The state after the first k characters of seed were absorbed and n steps
\* were made.
UState(seed, k, n) ==
    CHOOSE r \in { USteps(hs, n) :
                      hs \in { UAbsorb(h0, seed, 1, k) :
                                  h0 \in { UXor(USeedInit, << 0, Len(seed) >>) } } } : TRUE

\* The unsigned value of the 32 bits of a signed 32-bit integer.
UnsignedOf(x) ==
    IF x >= 0 THEN << x \div 65536, x % 65536 >>
    ELSE << (x \div 65536) + 65536, x % 65536 >>

\* C16: at every point of the seeding and after every call the state h of the
\* code is, read as unsigned, the state of the unsigned arithmetic modulo
\* 2^32; the output of a call is that state, 0 <= u < 2^32, and the shuffle
\* index it gives at position i lies in 0..i.
C16_UnsignedArithmetic ==
    (rng.pc # "idle") =>
        /\ UnsignedOf(rng.h) = UState(rng.seed, rng.k, rng.calls)
        /\ (rng.calls > 0) =>
               /\ rng.u = UState(rng.seed, rng.k, rng.calls)
               /\ rng.u[1] \in 0 .. 65535 /\ rng.u[2] \in 0 .. 65535
               /\ rng.j \in 0 .. rng.idx

\* A closure seeded with a password's digest was called, its state negative
\* as a signed integer, and gave the last index of its range.
C16_NegativeStateTopIndex ==
    /\ rng.pc = "ready"
    /\ Len(rng.seed) = 64
    /\ rng.calls >= 1
    /\ rng.h < 0
    /\ rng.j = rng.idx

\* C17: from a mode switch until the user starts the next encode or decode,
\* resultImageUrl, extractedData and error are null and isLoading is false,
\* whatever an operation started before the switch does.
C17_ModeSwitchIsolation ==
    ui.sinceReset =>
        /\ ui.resultImageUrl = "null"
        /\ ui.extractedData = "null"
        /\ ui.error = "null"
        /\ ~ ui.isLoading

====
